---- MODULE Spec2Model ----
(***************************************************************************)
(* Model of outlook-cli (src/src/main.rs): one invocation of the program.  *)
(* The process parses its command line, constructs the Outlook client with *)
(* the credentials, runs the arm of `match cli.command` that belongs to    *)
(* the command, renders the response on standard output and exits.         *)
(*                                                                         *)
(* Conventions.  Option<T> is a sequence of length at most one: None is    *)
(* <<>> and Some(x) is <<x>>.  A line of standard output is the sequence   *)
(* of the pieces of its format string (literals and interpolated values),  *)
(* so that println!("Subject: {}", s) is <<"Subject: ", s>> and println!() *)
(* is <<"">>.  The comma separated arguments (--to, --attendees) are       *)
(* sequences of characters, because the code splits and trims them.        *)
(***************************************************************************)
EXTENDS Integers, Sequences, FiniteSets, TLC

VARIABLES pc, argv, cmd, calls, resp, out, err, file

vars == <<pc, argv, cmd, calls, resp, out, err, file>>

\* ---------------------------------------------------------------- bounds
MaxStrLen == 3      \* longest comma separated argument, in characters
MaxList == 2        \* longest list a client operation returns

\* ---------------------------------------------------------------- options
None == <<>>
Some(x) == <<x>>
IsSome(o) == o # <<>>
Opt(S) == {None} \cup {Some(x) : x \in S}

\* Option::unwrap_or / unwrap_or_default
unwrap_or(o, d) == IF IsSome(o) THEN o[1] ELSE d

\* ---------------------------------------------------------------- strings
Chars == {"a", " ", ","}

IsWhitespace(c) == c = " "

RECURSIVE SeqsUpTo(_, _)
SeqsUpTo(S, n) ==
    IF n = 0 THEN {<<>>}
    ELSE LET shorter == SeqsUpTo(S, n - 1)
         IN  shorter \cup {Append(s, x) : s \in shorter, x \in S}

CommaStrings == SeqsUpTo(Chars, MaxStrLen)

\* the String a sequence of characters stands for ({} in a format string)
RECURSIVE Str(_)
Str(s) == IF s = <<>> THEN "" ELSE Head(s) \o Str(Tail(s))

\* str::trim
RECURSIVE trim_start(_)
trim_start(s) ==
    IF s # <<>> /\ IsWhitespace(Head(s)) THEN trim_start(Tail(s)) ELSE s

RECURSIVE trim_end(_)
trim_end(s) ==
    IF s # <<>> /\ IsWhitespace(s[Len(s)])
    THEN trim_end(SubSeq(s, 1, Len(s) - 1))
    ELSE s

trim(s) == trim_end(trim_start(s))

\* str::split(',') : the segments between the commas, empty ones included
RECURSIVE split(_)
split(s) ==
    IF \A i \in 1..Len(s) : s[i] # ","
    THEN <<s>>
    ELSE LET i == CHOOSE k \in 1..Len(s) :
                      /\ s[k] = ","
                      /\ \A j \in 1..(k - 1) : s[j] # ","
         IN  <<SubSeq(s, 1, i - 1)>> \o split(SubSeq(s, i + 1, Len(s)))

\* to.split(',').map(|s| s.trim()).collect()
\* (faulty variant of SplitTrim: empty segments are dropped)
SplitTrimDropEmpty(s) == SelectSeq([i \in 1..Len(split(s)) |-> trim(split(s)[i])],
                                   LAMBDA t : t # <<>>)
SplitTrim(s) == [i \in 1..Len(split(s)) |-> trim(split(s)[i])]

\* ---------------------------------------------------------------- u32
\* u32::MAX = 4294967295, digit by digit (it exceeds the model checker's
\* integers, so the range test compares digits)
U32MaxDigits == <<4, 2, 9, 4, 9, 6, 7, 2, 9, 5>>

Digits == {"0", "1", "2", "3", "4", "5", "6", "7", "8", "9"}

DigitVal(c) ==
    CASE c = "0" -> 0 [] c = "1" -> 1 [] c = "2" -> 2 [] c = "3" -> 3
      [] c = "4" -> 4 [] c = "5" -> 5 [] c = "6" -> 6 [] c = "7" -> 7
      [] c = "8" -> 8 [] c = "9" -> 9

RECURSIVE StripZeros(_)
StripZeros(s) == IF s # <<>> /\ Head(s) = "0" THEN StripZeros(Tail(s)) ELSE s

\* s <= t for two digit sequences of the same length
RECURSIVE DigitsLeq(_, _)
DigitsLeq(s, t) ==
    \/ s = <<>>
    \/ DigitVal(Head(s)) < Head(t)
    \/ DigitVal(Head(s)) = Head(t) /\ DigitsLeq(Tail(s), Tail(t))

FitsU32(s) ==
    LET z == StripZeros(s)
    IN  \/ Len(z) < Len(U32MaxDigits)
        \/ Len(z) = Len(U32MaxDigits) /\ DigitsLeq(z, U32MaxDigits)

RECURSIVE DecVal(_)
DecVal(s) == IF s = <<>> THEN 0
             ELSE 10 * DecVal(SubSeq(s, 1, Len(s) - 1)) + DigitVal(s[Len(s)])

\* clap's value parser of a u32 argument: None when the text is malformed
\* (not a decimal number, or out of the range of u32)
ParseU32(s) ==
    LET d == IF s # <<>> /\ Head(s) = "+" THEN Tail(s) ELSE s
    IN  IF d # <<>> /\ (\A i \in 1..Len(d) : d[i] \in Digits) /\ FitsU32(d)
        THEN Some(DecVal(d))
        ELSE None

\* the texts tried for --limit: well formed, not a number, out of range
LimitInputs == { <<"2">>, <<"x">>, <<"-", "1">>,
                 <<"4", "2", "9", "4", "9", "6", "7", "2", "9", "6">> }

\* ---------------------------------------------------------------- commands
CommandNames ==
    { "inbox", "unread", "search", "read", "folders", "me", "send", "reply",
      "forward", "delete", "get", "attachments", "download", "poll",
      "unread-count", "drafts", "create-draft", "send-draft", "events",
      "event", "create-event", "delete-event", "accept-event",
      "decline-event", "contacts", "contact", "create-contact",
      "delete-contact" }

\* the fields of each variant of `enum Commands` and how each is declared:
\* "String" (no default), "Option" (Option<String>), "u32" (with a
\* default_value), "default" (String with a default_value), "bool"
ArgDecl(name) ==
    CASE name \in {"inbox", "unread", "drafts"} -> [limit |-> "u32"]
      [] name = "search" -> [query |-> "String", limit |-> "u32"]
      [] name \in {"read", "delete", "get", "attachments", "send-draft",
                   "event", "delete-event", "contact", "delete-contact"} ->
            [id |-> "String"]
      [] name \in {"folders", "me", "unread-count"} -> <<>>
      [] name = "send" ->
            [to |-> "String", subject |-> "String", body |-> "String",
             html |-> "bool"]
      [] name = "reply" -> [id |-> "String", message |-> "String", all |-> "bool"]
      [] name = "forward" -> [id |-> "String", to |-> "String", comment |-> "Option"]
      [] name = "download" ->
            [email_id |-> "String", attachment_id |-> "String", output |-> "String"]
      [] name = "poll" -> [since |-> "String", limit |-> "u32"]
      [] name = "create-draft" ->
            [subject |-> "Option", body |-> "Option", to |-> "Option",
             html |-> "bool"]
      [] name = "events" -> [limit |-> "u32", start |-> "Option", end |-> "Option"]
      [] name = "create-event" ->
            [subject |-> "String", start |-> "String", end |-> "String",
             timezone |-> "default", location |-> "Option",
             attendees |-> "Option", all_day |-> "bool", online |-> "bool"]
      [] name \in {"accept-event", "decline-event"} ->
            [id |-> "String", comment |-> "Option"]
      [] name = "contacts" -> [limit |-> "u32", search |-> "Option"]
      [] name = "create-contact" ->
            [first_name |-> "String", last_name |-> "String",
             email |-> "Option", mobile |-> "Option", company |-> "Option",
             job_title |-> "Option"]

ArgsOfKind(name, kind) == {a \in DOMAIN ArgDecl(name) : ArgDecl(name)[a] = kind}

\* the arguments that are positional in the declaration (no #[arg(long)])
PositionalArgs(name) ==
    ArgsOfKind(name, "String") \cap
        (IF name = "download" THEN {}
         ELSE {"query", "id", "since"} \cup (IF name = "send" THEN {"to"} ELSE {}))

\* the arguments clap demands: those declared as a String without default
\* (faulty variant of RequiredArgs: send and reply demand only the positional)
RequiredArgsPositionalOnly(name) ==
    IF name \in {"send", "reply"}
    THEN PositionalArgs(name)
    ELSE ArgsOfKind(name, "String")
RequiredArgs(name) == ArgsOfKind(name, "String")

FlagArgs(name) == ArgsOfKind(name, "bool")

ValueArgs(name) == DOMAIN ArgDecl(name) \ FlagArgs(name)

DefaultLimit(name) == IF name = "contacts" THEN 20 ELSE 10

DefaultTimezone == "UTC"

\* arguments whose text the code splits on commas
IsCommaArg(name, a) ==
    \/ a = "to" /\ name \in {"forward", "create-draft"}
    \/ a = "attendees"

\* the texts tried for an argument on the command line
ArgTexts(name, a) ==
    IF a = "limit" THEN LimitInputs
    ELSE IF IsCommaArg(name, a) THEN CommaStrings
    ELSE IF a = "to" THEN {"to@example.com"}
    ELSE IF a = "start" THEN {"2024-01-01"}
    ELSE IF a = "end" THEN {"2024-01-31"}
    ELSE IF a = "timezone" THEN {"CET"}
    ELSE {"<" \o a \o ">"}

\* every assignment of a text, or of None, to each argument of the set
RECURSIVE Givens(_, _)
Givens(name, args) ==
    IF args = {} THEN {<<>>}
    ELSE LET a == CHOOSE x \in args : TRUE
         IN  { (a :> v) @@ g : v \in Opt(ArgTexts(name, a)),
                               g \in Givens(name, args \ {a}) }

\* a command line: the subcommand (None when missing), the text given for
\* each of its arguments (None when the argument is not on the command
\* line), its switches, and the refresh token (--token or, failing that,
\* OUTLOOK_REFRESH_TOKEN; --client-id is left at its default)
Argvs ==
    [name : {None}, given : {<<>>}, flags : {<<>>}, token : Opt({"tok"})]
    \cup
    UNION { [name : {Some(n)},
             given : Givens(n, ValueArgs(n)),
             flags : [FlagArgs(n) -> BOOLEAN],
             token : Opt({"tok"})] : n \in CommandNames }

DEFAULT_CLIENT_ID == "default-client-id"

\* Cli::parse succeeds: there is a token and a subcommand, every argument
\* declared as a String is present and every --limit is a u32
ParseOk(av) ==
    /\ IsSome(av.token)
    /\ IsSome(av.name)
    /\ \A a \in RequiredArgs(av.name[1]) : IsSome(av.given[a])
    /\ \A a \in ArgsOfKind(av.name[1], "u32") :
          IsSome(av.given[a]) => IsSome(ParseU32(av.given[a][1]))

\* the value of a field of the parsed command
ArgValue(av, a) ==
    LET n == av.name[1]
        kind == ArgDecl(n)[a]
    IN  CASE kind = "bool" -> av.flags[a]
          [] kind = "u32" -> IF IsSome(av.given[a])
                             THEN ParseU32(av.given[a][1])[1]
                             ELSE DefaultLimit(n)
          [] kind = "default" -> unwrap_or(av.given[a], DefaultTimezone)
          [] kind = "Option" -> av.given[a]
          [] OTHER -> IF a \in RequiredArgs(n) THEN av.given[a][1] ELSE av.given[a]

\* the Cli value: credentials and the Commands variant with its fields
ParsedCli(av) ==
    [client_id |-> DEFAULT_CLIENT_ID,
     token |-> av.token[1],
     name |-> av.name[1],
     a |-> [a \in DOMAIN ArgDecl(av.name[1]) |-> ArgValue(av, a)]]

NoCli == [client_id |-> "", token |-> "", name |-> "", a |-> <<>>]

\* ---------------------------------------------------------------- client
\* the failures the client collaborator reports
ClientErrors == {"unauthorized", "not found"}

\* one invocation of a client operation and how it ended ("ok" or the error)
Call(op, args, result) == [op |-> op, args |-> args, result |-> result]

\* the command-level operations invoked so far (all but the construction)
CommandCalls == SelectSeq(calls, LAMBDA c : c.op # "with_credentials")

\* the file at the output path when the program starts: None when there is
\* no file, Some(bytes) when one exists
ExistingFiles == Opt({<<5>>})

\* ---------------------------------------------------------------- start
Init ==
    /\ pc = "start"
    /\ argv \in Argvs
    /\ cmd = NoCli
    /\ calls = <<>>
    /\ resp = None
    /\ out = <<>>
    /\ err = None
    /\ file \in ExistingFiles

\* Cli::parse(): on an argument error clap prints the usage message on
\* standard error and exits; nothing else has run yet
\* (faulty variant of Parse: the client is constructed before the rejection)
ParseAfterConnect ==
    /\ pc = "start"
    /\ IF ParseOk(argv)
       THEN /\ pc' = "parsed"
            /\ cmd' = ParsedCli(argv)
            /\ UNCHANGED <<err, calls>>
       ELSE /\ pc' = "usage"
            /\ err' = Some("usage")
            /\ calls' = Append(calls, Call("with_credentials",
                                           <<DEFAULT_CLIENT_ID, argv.token>>, "ok"))
            /\ UNCHANGED cmd
    /\ UNCHANGED <<argv, resp, out, file>>
Parse ==
    /\ pc = "start"
    /\ IF ParseOk(argv)
       THEN /\ pc' = "parsed"
            /\ cmd' = ParsedCli(argv)
            /\ UNCHANGED err
       ELSE /\ pc' = "usage"
            /\ err' = Some("usage")
            /\ UNCHANGED cmd
    /\ UNCHANGED <<argv, calls, resp, out, file>>

\* OutlookClient::with_credentials(&cli.client_id, &cli.token).await?
WithCredentials ==
    /\ pc = "parsed"
    /\ \E r \in {"ok"} \cup ClientErrors :
          /\ calls' = Append(calls, Call("with_credentials",
                                         <<cmd.client_id, cmd.token>>, r))
          /\ IF r = "ok"
             THEN pc' = "dispatch" /\ UNCHANGED err
             ELSE pc' = "failed" /\ err' = Some(r)
    /\ UNCHANGED <<argv, cmd, resp, out, file>>

\* `client.op(args).await?` when the operation fails: the error leaves main
\* (faulty variant of OpFails: the error is replaced by a generic one)
OpFailsTranslated(op, args) ==
    \E e \in ClientErrors :
        /\ calls' = Append(calls, Call(op, args, e))
        /\ pc' = "failed"
        /\ err' = Some("operation failed")
        /\ UNCHANGED <<argv, cmd, resp, out, file>>
\* (faulty variant of OpFails: the operation is retried once)
OpFailsRetried(op, args) ==
    \E e \in ClientErrors, r \in {"ok"} \cup ClientErrors :
        /\ calls' = calls \o <<Call(op, args, e), Call(op, args, r)>>
        /\ pc' = "failed"
        /\ err' = Some(e)
        /\ UNCHANGED <<argv, cmd, resp, out, file>>
OpFails(op, args) ==
    \E e \in ClientErrors :
        /\ calls' = Append(calls, Call(op, args, e))
        /\ pc' = "failed"
        /\ err' = Some(e)
        /\ UNCHANGED <<argv, cmd, resp, out, file>>

\* `client.op(args).await?` when the operation returns r, followed by the
\* println! calls of the arm and the Ok(()) of main
OpReturns(op, args, r, lines) ==
    /\ calls' = Append(calls, Call(op, args, "ok"))
    /\ resp' = Some(r)
    /\ out' = out \o lines
    /\ pc' = "done"
    /\ UNCHANGED <<argv, cmd, err, file>>

\* the arm of `match cli.command` for the variant `name` is entered
InArm(name) == pc = "dispatch" /\ cmd.name = name

\* ---------------------------------------------------------------- responses
ListsUpTo(S) == SeqsUpTo(S, MaxList)

EmailAddress == [address : {"a@x"}]
Recipient == [email_address : EmailAddress]

\* DateTime<Utc> as seconds since the epoch, and its Display
Dates == {1704067200}
DateToString(d) == IF d = 1704067200 THEN "2024-01-01 00:00:00 UTC" ELSE "?"

\* Message as the list operations return it
Messages ==
    [id : {"m1", "m2"}, subject : Opt({"Hi"}), from : Opt(Recipient),
     is_read : Opt(BOOLEAN), received_date_time : {None}, body : {None}]

\* Message as get_message_with_body returns it
MessagesWithBody ==
    [id : {"m1"}, subject : Opt({"Hi"}), from : Opt(Recipient),
     is_read : Opt(BOOLEAN), received_date_time : Opt(Dates),
     body : Opt([content : {"Hello", ""}])]

Folders ==
    [display_name : {"Inbox"}, unread_item_count : Opt({0, 3}),
     total_item_count : Opt({0, 7})]

Users == [display_name : Opt({"Ann"}), mail : Opt({"ann@x"})]

\* ---------------------------------------------------------------- renderer
\* {:2} of a list index
Pad2(n) == IF n < 10 THEN " " \o ToString(n) ELSE ToString(n)

\* (faulty variant of MessageLine: no fallback for an absent subject)
MessageLineNoFallback(i, msg) ==
    <<"", Pad2(i), ".",
      IF unwrap_or(msg.is_read, FALSE) THEN " " ELSE "*",
      " ",
      IF IsSome(msg.from) THEN msg.from[1].email_address.address ELSE "unknown",
      " - ",
      unwrap_or(msg.subject, "None")>>
MessageLine(i, msg) ==
    <<"", Pad2(i), ".",
      IF unwrap_or(msg.is_read, FALSE) THEN " " ELSE "*",
      " ",
      IF IsSome(msg.from) THEN msg.from[1].email_address.address ELSE "unknown",
      " - ",
      unwrap_or(msg.subject, "(no subject)")>>

MessageIdLine(msg) == <<"      ID: ", msg.id>>

\* (faulty variant of print_messages: numbered from 0)
print_messagesZeroBased(messages) ==
    IF messages = <<>>
    THEN << <<"(no messages)">> >>
    ELSE [k \in 1..(2 * Len(messages)) |->
             IF k % 2 = 1
             THEN MessageLine((k + 1) \div 2 - 1, messages[(k + 1) \div 2])
             ELSE MessageIdLine(messages[k \div 2])]
         \o << <<"">>, <<"* = unread">> >>
\* fn print_messages
print_messages(messages) ==
    IF messages = <<>>
    THEN << <<"(no messages)">> >>
    ELSE [k \in 1..(2 * Len(messages)) |->
             IF k % 2 = 1
             THEN MessageLine((k + 1) \div 2, messages[(k + 1) \div 2])
             ELSE MessageIdLine(messages[k \div 2])]
         \o << <<"">>, <<"* = unread">> >>

\* ---------------------------------------------------------------- arms
Inbox ==
    /\ InArm("inbox")
    /\ LET args == <<cmd.a.limit>>
       IN  \/ OpFails("inbox", args)
           \/ \E messages \in ListsUpTo(Messages) :
                 OpReturns("inbox", args, messages, print_messages(messages))

Unread ==
    /\ InArm("unread")
    /\ LET args == <<cmd.a.limit>>
       IN  \/ OpFails("unread", args)
           \/ \E messages \in ListsUpTo(Messages) :
                 OpReturns("unread", args, messages,
                           IF messages = <<>>
                           THEN << <<"No unread messages">> >>
                           ELSE print_messages(messages))

Search ==
    /\ InArm("search")
    /\ LET args == <<cmd.a.query, cmd.a.limit>>
       IN  \/ OpFails("search_by_subject", args)
           \/ \E messages \in ListsUpTo(Messages) :
                 OpReturns("search_by_subject", args, messages,
                           IF messages = <<>>
                           THEN << <<"No messages found for: ", cmd.a.query>> >>
                           ELSE print_messages(messages))

Read ==
    /\ InArm("read")
    /\ LET args == <<cmd.a.id>>
       IN  \/ OpFails("mark_as_read", args)
           \/ OpReturns("mark_as_read", args, <<>>,
                        << <<"Marked as read: ", cmd.a.id>> >>)

FolderLine(folder) ==
    LET unread == unwrap_or(folder.unread_item_count, 0)
        total == unwrap_or(folder.total_item_count, 0)
        unread_str == IF unread > 0
                      THEN " (" \o ToString(unread) \o " unread)"
                      ELSE ""
    IN  <<"  ", folder.display_name, " - ", ToString(total), " items", unread_str>>

ListFolders ==
    /\ InArm("folders")
    /\ \/ OpFails("list_folders", <<>>)
       \/ \E folders \in ListsUpTo(Folders) :
             OpReturns("list_folders", <<>>, folders,
                       << <<"Mail Folders:">>, <<"">> >>
                       \o [i \in 1..Len(folders) |-> FolderLine(folders[i])])

Me ==
    /\ InArm("me")
    /\ \/ OpFails("get_me", <<>>)
       \/ \E user \in Users :
             OpReturns("get_me", <<>>, user,
                       << <<"User: ", unwrap_or(user.display_name, "")>>,
                          <<"Email: ", unwrap_or(user.mail, "")>> >>)

\* NewMessage::text / NewMessage::html
NewMessage(kind, to, subject, body) ==
    [content_type |-> kind, to |-> to, subject |-> subject, body |-> body]

Send ==
    /\ InArm("send")
    /\ LET message == NewMessage(IF cmd.a.html THEN "html" ELSE "text",
                                 cmd.a.to, cmd.a.subject, cmd.a.body)
       IN  \/ OpFails("send_mail", <<message>>)
           \/ OpReturns("send_mail", <<message>>, <<>>,
                        << <<"Email sent to: ", cmd.a.to>> >>)

Reply ==
    /\ InArm("reply")
    /\ LET args == <<cmd.a.id, cmd.a.message>>
       IN  IF cmd.a.all
           THEN \/ OpFails("reply_all", args)
                \/ OpReturns("reply_all", args, <<>>,
                             << <<"Replied all to: ", cmd.a.id>> >>)
           ELSE \/ OpFails("reply", args)
                \/ OpReturns("reply", args, <<>>,
                             << <<"Replied to: ", cmd.a.id>> >>)

\* (faulty variant of Forward: the confirmation shows the split list joined again)
RECURSIVE JoinComma(_)
JoinComma(l) ==
    IF l = <<>> THEN <<>>
    ELSE IF Len(l) = 1 THEN l[1]
    ELSE l[1] \o <<",">> \o JoinComma(Tail(l))

ForwardEchoesList ==
    /\ InArm("forward")
    /\ LET recipients == SplitTrim(cmd.a.to)
           args == <<cmd.a.id, recipients, cmd.a.comment>>
       IN  \/ OpFails("forward", args)
           \/ OpReturns("forward", args, <<>>,
                        << <<"Forwarded to: ", Str(JoinComma(recipients))>> >>)
Forward ==
    /\ InArm("forward")
    /\ LET recipients == SplitTrim(cmd.a.to)
           args == <<cmd.a.id, recipients, cmd.a.comment>>
       IN  \/ OpFails("forward", args)
           \/ OpReturns("forward", args, <<>>,
                        << <<"Forwarded to: ", Str(cmd.a.to)>> >>)

Delete ==
    /\ InArm("delete")
    /\ LET args == <<cmd.a.id>>
       IN  \/ OpFails("delete_message", args)
           \/ OpReturns("delete_message", args, <<>>,
                        << <<"Deleted: ", cmd.a.id>> >>)

GetLines(msg) ==
    << <<"Subject: ", unwrap_or(msg.subject, "(no subject)")>>,
       <<"From: ",
         IF IsSome(msg.from) THEN msg.from[1].email_address.address ELSE "unknown">>,
       <<"Date: ",
         IF IsSome(msg.received_date_time)
         THEN DateToString(msg.received_date_time[1])
         ELSE "">>,
       <<"Read: ", IF unwrap_or(msg.is_read, FALSE) THEN "Yes" ELSE "No">>,
       <<"">> >>
    \o (IF IsSome(msg.body) THEN << <<"", msg.body[1].content>> >> ELSE <<>>)

Get ==
    /\ InArm("get")
    /\ LET args == <<cmd.a.id>>
       IN  \/ OpFails("get_message_with_body", args)
           \/ \E msg \in MessagesWithBody :
                 OpReturns("get_message_with_body", args, msg, GetLines(msg))

AttachmentInfos == [id : {"att1"}, name : {"a.txt"}, size : Opt({0, 12})]

AttachmentLine(att) ==
    <<"  ", att.id, " - ", att.name, "",
      IF IsSome(att.size) THEN " (" \o ToString(att.size[1]) \o " bytes)" ELSE "">>

Attachments ==
    /\ InArm("attachments")
    /\ LET args == <<cmd.a.id>>
       IN  \/ OpFails("list_attachments", args)
           \/ \E attachments \in ListsUpTo(AttachmentInfos) :
                 OpReturns("list_attachments", args, attachments,
                           IF attachments = <<>>
                           THEN << <<"No attachments">> >>
                           ELSE << <<"Attachments:">> >>
                                \o [i \in 1..Len(attachments) |->
                                       AttachmentLine(attachments[i])])

\* the contents download_attachment returns
Payloads == {<<>>, <<7>>, <<7, 9>>}

\* the failures of std::fs::write
IoErrors == {"permission denied"}

\* what a failed std::fs::write may leave at the path: the file as it was
\* (it could not be opened) or a truncated file holding part of the bytes
AfterFailedWrite(old, bytes) ==
    {old} \cup {Some(SubSeq(bytes, 1, n)) : n \in 0..(Len(bytes) - 1)}

\* (faulty variant of Download: the file is created before the download)
DownloadCreatesFileFirst ==
    /\ InArm("download")
    /\ LET args == <<cmd.a.email_id, cmd.a.attachment_id>>
       IN  \/ \E e \in ClientErrors :
                 /\ calls' = Append(calls, Call("download_attachment", args, e))
                 /\ file' = Some(<<>>)
                 /\ pc' = "failed"
                 /\ err' = Some(e)
                 /\ UNCHANGED <<argv, cmd, resp, out>>
           \/ \E bytes \in Payloads :
                 /\ calls' = Append(calls, Call("download_attachment", args, "ok"))
                 /\ resp' = Some(bytes)
                 /\ \/ /\ file' = Some(bytes)
                       /\ out' = Append(out, <<"Downloaded ", ToString(Len(bytes)),
                                               " bytes to: ", cmd.a.output>>)
                       /\ pc' = "done"
                       /\ UNCHANGED err
                    \/ \E e \in IoErrors, f \in AfterFailedWrite(file, bytes) :
                          /\ file' = f
                          /\ err' = Some(e)
                          /\ pc' = "failed"
                          /\ UNCHANGED out
                 /\ UNCHANGED <<argv, cmd>>
Download ==
    /\ InArm("download")
    /\ LET args == <<cmd.a.email_id, cmd.a.attachment_id>>
       IN  \/ OpFails("download_attachment", args)
           \/ \E bytes \in Payloads :
                 /\ calls' = Append(calls, Call("download_attachment", args, "ok"))
                 /\ resp' = Some(bytes)
                 /\ \/ /\ file' = Some(bytes)
                       /\ out' = Append(out, <<"Downloaded ", ToString(Len(bytes)),
                                               " bytes to: ", cmd.a.output>>)
                       /\ pc' = "done"
                       /\ UNCHANGED err
                    \/ \E e \in IoErrors, f \in AfterFailedWrite(file, bytes) :
                          /\ file' = f
                          /\ err' = Some(e)
                          /\ pc' = "failed"
                          /\ UNCHANGED out
                 /\ UNCHANGED <<argv, cmd>>

Poll ==
    /\ InArm("poll")
    /\ LET args == <<cmd.a.since, cmd.a.limit>>
       IN  \/ OpFails("poll_new_messages", args)
           \/ \E messages \in ListsUpTo(Messages) :
                 OpReturns("poll_new_messages", args, messages,
                           IF messages = <<>>
                           THEN << <<"No new messages since ", cmd.a.since>> >>
                           ELSE << <<"New messages since ", cmd.a.since, ":">> >>
                                \o print_messages(messages))

UnreadCount ==
    /\ InArm("unread-count")
    /\ \/ OpFails("unread_count", <<>>)
       \/ \E count \in {0, 5} :
             OpReturns("unread_count", <<>>, count,
                       << <<"Unread messages: ", ToString(count)>> >>)

\* ---------------------------------------------------------------- drafts
Drafts ==
    /\ InArm("drafts")
    /\ LET args == <<cmd.a.limit>>
       IN  \/ OpFails("list_drafts", args)
           \/ \E drafts \in ListsUpTo(Messages) :
                 OpReturns("list_drafts", args, drafts,
                           IF drafts = <<>>
                           THEN << <<"No drafts">> >>
                           ELSE << <<"Drafts:">> >> \o print_messages(drafts))

\* DraftMessage::new() and its setters
DraftMessageNew == [subject |-> None, body |-> None, to |-> None]
DraftSubject(draft, s) == [draft EXCEPT !.subject = Some(s)]
DraftBody(draft, kind, b) ==
    [draft EXCEPT !.body = Some([content_type |-> kind, content |-> b])]
DraftTo(draft, recipients) == [draft EXCEPT !.to = Some(recipients)]

BuildDraft(a) ==
    LET d1 == IF IsSome(a.subject)
              THEN DraftSubject(DraftMessageNew, a.subject[1])
              ELSE DraftMessageNew
        d2 == IF IsSome(a.body)
              THEN DraftBody(d1, IF a.html THEN "html" ELSE "text", a.body[1])
              ELSE d1
    IN  IF IsSome(a.to) THEN DraftTo(d2, SplitTrim(a.to[1])) ELSE d2

CreateDraft ==
    /\ InArm("create-draft")
    /\ LET draft == BuildDraft(cmd.a)
       IN  \/ OpFails("create_draft", <<draft>>)
           \/ \E created \in [id : {"d1"}] :
                 OpReturns("create_draft", <<draft>>, created,
                           << <<"Draft created: ", created.id>> >>)

SendDraft ==
    /\ InArm("send-draft")
    /\ LET args == <<cmd.a.id>>
       IN  \/ OpFails("send_draft", args)
           \/ OpReturns("send_draft", args, <<>>,
                        << <<"Draft sent: ", cmd.a.id>> >>)

\* ---------------------------------------------------------------- calendar
DateTimeTimeZone(date_time, time_zone) ==
    [date_time |-> date_time, time_zone |-> time_zone]

DateTimeTimeZones == {DateTimeTimeZone("2024-01-01T09:00:00", "UTC")}

Attendees == [email_address : EmailAddress]

\* CalendarEvent as the list operations return it
ListedEvents ==
    [id : {"e1"}, subject : Opt({"Standup"}), start : Opt(DateTimeTimeZones),
     end : {None}, location : {None}, attendees : {None}]

\* CalendarEvent as get_event returns it
DetailedEvents ==
    [id : {"e1"}, subject : Opt({"Standup"}), start : Opt(DateTimeTimeZones),
     end : Opt(DateTimeTimeZones),
     location : Opt([display_name : Opt({"Room 1"})]),
     attendees : Opt(SeqsUpTo(Attendees, 1))]

EventListLines(event) ==
    << <<"  ",
         IF IsSome(event.start) THEN event.start[1].date_time ELSE "?",
         " - ",
         unwrap_or(event.subject, "(no subject)")>>,
       <<"    ID: ", event.id>> >>

RECURSIVE Flatten(_)
Flatten(ss) == IF ss = <<>> THEN <<>> ELSE Head(ss) \o Flatten(Tail(ss))

\* (faulty variant of Events: --start alone selects the ranged operation)
EventsRangedOnStart ==
    /\ InArm("events")
    /\ LET ranged == IsSome(cmd.a.start)
           op == IF ranged THEN "list_events_range" ELSE "list_events"
           args == IF ranged
                   THEN <<cmd.a.start[1], unwrap_or(cmd.a.end, ""), cmd.a.limit>>
                   ELSE <<cmd.a.limit>>
       IN  \/ OpFails(op, args)
           \/ \E events \in ListsUpTo(ListedEvents) :
                 OpReturns(op, args, events,
                           IF events = <<>>
                           THEN << <<"No events">> >>
                           ELSE << <<"Calendar Events:">> >>
                                \o Flatten([i \in 1..Len(events) |->
                                               EventListLines(events[i])]))
Events ==
    /\ InArm("events")
    /\ LET ranged == IsSome(cmd.a.start) /\ IsSome(cmd.a.end)
           op == IF ranged THEN "list_events_range" ELSE "list_events"
           args == IF ranged
                   THEN <<cmd.a.start[1], cmd.a.end[1], cmd.a.limit>>
                   ELSE <<cmd.a.limit>>
       IN  \/ OpFails(op, args)
           \/ \E events \in ListsUpTo(ListedEvents) :
                 OpReturns(op, args, events,
                           IF events = <<>>
                           THEN << <<"No events">> >>
                           ELSE << <<"Calendar Events:">> >>
                                \o Flatten([i \in 1..Len(events) |->
                                               EventListLines(events[i])]))

\* (faulty variant of EventLines: a blank Location line for a missing name)
EventLinesBlankLocation(event) ==
    << <<"Subject: ", unwrap_or(event.subject, "(no subject)")>> >>
    \o (IF IsSome(event.start)
        THEN << <<"Start: ", event.start[1].date_time,
                  " (", event.start[1].time_zone, ")">> >>
        ELSE <<>>)
    \o (IF IsSome(event.end)
        THEN << <<"End: ", event.end[1].date_time,
                  " (", event.end[1].time_zone, ")">> >>
        ELSE <<>>)
    \o (IF IsSome(event.location)
        THEN << <<"Location: ", unwrap_or(event.location[1].display_name, "")>> >>
        ELSE <<>>)
    \o (IF IsSome(event.attendees)
        THEN << <<"Attendees:">> >>
             \o [i \in 1..Len(event.attendees[1]) |->
                    <<"  - ", event.attendees[1][i].email_address.address>>]
        ELSE <<>>)
EventLines(event) ==
    << <<"Subject: ", unwrap_or(event.subject, "(no subject)")>> >>
    \o (IF IsSome(event.start)
        THEN << <<"Start: ", event.start[1].date_time,
                  " (", event.start[1].time_zone, ")">> >>
        ELSE <<>>)
    \o (IF IsSome(event.end)
        THEN << <<"End: ", event.end[1].date_time,
                  " (", event.end[1].time_zone, ")">> >>
        ELSE <<>>)
    \o (IF IsSome(event.location) /\ IsSome(event.location[1].display_name)
        THEN << <<"Location: ", event.location[1].display_name[1]>> >>
        ELSE <<>>)
    \o (IF IsSome(event.attendees)
        THEN << <<"Attendees:">> >>
             \o [i \in 1..Len(event.attendees[1]) |->
                    <<"  - ", event.attendees[1][i].email_address.address>>]
        ELSE <<>>)

Event ==
    /\ InArm("event")
    /\ LET args == <<cmd.a.id>>
       IN  \/ OpFails("get_event", args)
           \/ \E event \in DetailedEvents :
                 OpReturns("get_event", args, event, EventLines(event))

\* NewCalendarEvent::new and its amendments
NewCalendarEvent(subject, start_dt, end_dt) ==
    [subject |-> subject, start |-> start_dt, end |-> end_dt,
     location |-> None, attendees |-> None,
     is_all_day |-> FALSE, is_online_meeting |-> FALSE]

BuildEvent(a) ==
    LET e0 == NewCalendarEvent(a.subject,
                               DateTimeTimeZone(a.start, a.timezone),
                               DateTimeTimeZone(a.end, a.timezone))
        e1 == IF IsSome(a.location) THEN [e0 EXCEPT !.location = a.location] ELSE e0
        e2 == IF IsSome(a.attendees)
              THEN [e1 EXCEPT !.attendees = Some(SplitTrim(a.attendees[1]))]
              ELSE e1
        e3 == IF a.all_day THEN [e2 EXCEPT !.is_all_day = TRUE] ELSE e2
    IN  IF a.online THEN [e3 EXCEPT !.is_online_meeting = TRUE] ELSE e3

CreateEvent ==
    /\ InArm("create-event")
    /\ LET event == BuildEvent(cmd.a)
       IN  \/ OpFails("create_event", <<event>>)
           \/ \E created \in [id : {"e9"}] :
                 OpReturns("create_event", <<event>>, created,
                           << <<"Event created: ", created.id>> >>)

DeleteEvent ==
    /\ InArm("delete-event")
    /\ LET args == <<cmd.a.id>>
       IN  \/ OpFails("delete_event", args)
           \/ OpReturns("delete_event", args, <<>>,
                        << <<"Event deleted: ", cmd.a.id>> >>)

AcceptEvent ==
    /\ InArm("accept-event")
    /\ LET args == <<cmd.a.id, cmd.a.comment>>
       IN  \/ OpFails("accept_event", args)
           \/ OpReturns("accept_event", args, <<>>,
                        << <<"Event accepted: ", cmd.a.id>> >>)

DeclineEvent ==
    /\ InArm("decline-event")
    /\ LET args == <<cmd.a.id, cmd.a.comment>>
       IN  \/ OpFails("decline_event", args)
           \/ OpReturns("decline_event", args, <<>>,
                        << <<"Event declined: ", cmd.a.id>> >>)

\* ---------------------------------------------------------------- contacts
ContactEmails ==
    Opt({ <<>>,
          <<[address |-> None]>>,
          <<[address |-> Some("c@x")]>>,
          <<[address |-> None], [address |-> Some("d@x")]>> })

\* Contact as the list operations return it
ListedContacts ==
    [id : {"c1"}, display_name : Opt({"Jane Doe"}), given_name : {None},
     surname : {None}, email_addresses : ContactEmails, mobile_phone : {None},
     company_name : {None}, job_title : {None}]

\* Contact as get_contact returns it
DetailedContacts ==
    [id : {"c1"}, display_name : {None}, given_name : Opt({"Jane"}),
     surname : Opt({"Doe"}), email_addresses : ContactEmails,
     mobile_phone : Opt({"555"}), company_name : Opt({"Acme"}),
     job_title : Opt({"CTO"})]

\* contact.email_addresses.as_ref().and_then(|e| e.first())
\*        .and_then(|e| e.address.as_deref()).unwrap_or("")
FirstEmail(contact) ==
    IF /\ IsSome(contact.email_addresses)
       /\ contact.email_addresses[1] # <<>>
       /\ IsSome(contact.email_addresses[1][1].address)
    THEN contact.email_addresses[1][1].address[1]
    ELSE ""

ContactListLines(contact) ==
    << <<"  ", unwrap_or(contact.display_name, "(no name)"), " - ",
         FirstEmail(contact)>>,
       <<"    ID: ", contact.id>> >>

Contacts ==
    /\ InArm("contacts")
    /\ LET searching == IsSome(cmd.a.search)
           op == IF searching THEN "search_contacts" ELSE "list_contacts"
           args == IF searching
                   THEN <<cmd.a.search[1], cmd.a.limit>>
                   ELSE <<cmd.a.limit>>
       IN  \/ OpFails(op, args)
           \/ \E contacts \in ListsUpTo(ListedContacts) :
                 OpReturns(op, args, contacts,
                           IF contacts = <<>>
                           THEN << <<"No contacts">> >>
                           ELSE << <<"Contacts:">> >>
                                \o Flatten([i \in 1..Len(contacts) |->
                                               ContactListLines(contacts[i])]))

ContactLines(contact) ==
    << <<"Name: ", unwrap_or(contact.given_name, ""), " ",
         unwrap_or(contact.surname, "")>> >>
    \o (IF IsSome(contact.email_addresses)
        THEN LET emails == SelectSeq(contact.email_addresses[1],
                                     LAMBDA e : IsSome(e.address))
             IN  [i \in 1..Len(emails) |-> <<"Email: ", emails[i].address[1]>>]
        ELSE <<>>)
    \o (IF IsSome(contact.mobile_phone)
        THEN << <<"Mobile: ", contact.mobile_phone[1]>> >>
        ELSE <<>>)
    \o (IF IsSome(contact.company_name)
        THEN << <<"Company: ", contact.company_name[1]>> >>
        ELSE <<>>)
    \o (IF IsSome(contact.job_title)
        THEN << <<"Title: ", contact.job_title[1]>> >>
        ELSE <<>>)

Contact ==
    /\ InArm("contact")
    /\ LET args == <<cmd.a.id>>
       IN  \/ OpFails("get_contact", args)
           \/ \E contact \in DetailedContacts :
                 OpReturns("get_contact", args, contact, ContactLines(contact))

\* NewContact::new and its amendments
NewContact(first_name, last_name) ==
    [given_name |-> first_name, surname |-> last_name, email |-> None,
     mobile |-> None, company |-> None, job_title |-> None]

BuildContact(a) ==
    [NewContact(a.first_name, a.last_name) EXCEPT
        !.email = a.email, !.mobile = a.mobile,
        !.company = a.company, !.job_title = a.job_title]

CreateContact ==
    /\ InArm("create-contact")
    /\ LET contact == BuildContact(cmd.a)
       IN  \/ OpFails("create_contact", <<contact>>)
           \/ \E created \in [id : {"c9"}] :
                 OpReturns("create_contact", <<contact>>, created,
                           << <<"Contact created: ", created.id>> >>)

DeleteContact ==
    /\ InArm("delete-contact")
    /\ LET args == <<cmd.a.id>>
       IN  \/ OpFails("delete_contact", args)
           \/ OpReturns("delete_contact", args, <<>>,
                        << <<"Contact deleted: ", cmd.a.id>> >>)

\* ---------------------------------------------------------------- main
Next ==
    \/ Parse
    \/ WithCredentials
    \/ Inbox
    \/ Unread
    \/ Search
    \/ Read
    \/ ListFolders
    \/ Me
    \/ Send
    \/ Reply
    \/ Forward
    \/ Delete
    \/ Get
    \/ Attachments
    \/ Download
    \/ Poll
    \/ UnreadCount
    \/ Drafts
    \/ CreateDraft
    \/ SendDraft
    \/ Events
    \/ Event
    \/ CreateEvent
    \/ DeleteEvent
    \/ AcceptEvent
    \/ DeclineEvent
    \/ Contacts
    \/ Contact
    \/ CreateContact
    \/ DeleteContact

Spec == Init /\ [][Next]_vars

\* ---------------------------------------------------------------- claims

\* the client operations each command may invoke
ArmOps(name) ==
    CASE name = "inbox" -> {"inbox"}
      [] name = "unread" -> {"unread"}
      [] name = "search" -> {"search_by_subject"}
      [] name = "read" -> {"mark_as_read"}
      [] name = "folders" -> {"list_folders"}
      [] name = "me" -> {"get_me"}
      [] name = "send" -> {"send_mail"}
      [] name = "reply" -> {"reply", "reply_all"}
      [] name = "forward" -> {"forward"}
      [] name = "delete" -> {"delete_message"}
      [] name = "get" -> {"get_message_with_body"}
      [] name = "attachments" -> {"list_attachments"}
      [] name = "download" -> {"download_attachment"}
      [] name = "poll" -> {"poll_new_messages"}
      [] name = "unread-count" -> {"unread_count"}
      [] name = "drafts" -> {"list_drafts"}
      [] name = "create-draft" -> {"create_draft"}
      [] name = "send-draft" -> {"send_draft"}
      [] name = "events" -> {"list_events", "list_events_range"}
      [] name = "event" -> {"get_event"}
      [] name = "create-event" -> {"create_event"}
      [] name = "delete-event" -> {"delete_event"}
      [] name = "accept-event" -> {"accept_event"}
      [] name = "decline-event" -> {"decline_event"}
      [] name = "contacts" -> {"list_contacts", "search_contacts"}
      [] name = "contact" -> {"get_contact"}
      [] name = "create-contact" -> {"create_contact"}
      [] name = "delete-contact" -> {"delete_contact"}
      [] OTHER -> {}

\* C1: in every run at most one command-level client operation is invoked
\* after the client is constructed, it is an operation of the command, and
\* a run that ends successfully has invoked exactly one.
C1_OneClientCall ==
    /\ Len(CommandCalls) <= 1
    /\ \A i \in 1..Len(CommandCalls) : CommandCalls[i].op \in ArmOps(cmd.name)
    /\ pc = "done" => Len(CommandCalls) = 1

\* reply --all ended successfully after its one operation, reply_all
C1_Witness ==
    /\ pc = "done"
    /\ cmd.name = "reply"
    /\ cmd.a.all
    /\ Len(CommandCalls) = 1
    /\ CommandCalls[1].op = "reply_all"
    /\ CommandCalls[1].result = "ok"

\* C2: when the client collaborator fails, in its construction or in the
\* command's operation, the failed call is the last client call of the run,
\* standard output stays empty and the run ends in the failure outcome that
\* carries the collaborator's error unchanged.
C2_FailureAborts ==
    \A i \in 1..Len(calls) :
        calls[i].result # "ok" =>
            /\ i = Len(calls)
            /\ pc = "failed"
            /\ err = Some(calls[i].result)
            /\ out = <<>>

\* the operation of a command failed after the client was constructed
C2_Witness ==
    /\ pc = "failed"
    /\ Len(calls) = 2
    /\ calls[1].result = "ok"
    /\ calls[2].result = "not found"
    /\ err = Some("not found")

\* C3: an invocation with a missing or malformed argument is rejected
\* before any network activity: a run that ends in the argument error has
\* made no client call at all (neither the construction nor an operation),
\* and every client call is preceded by a successful parse.
C3_RejectedBeforeNetwork ==
    /\ pc = "usage" => calls = <<>> /\ out = <<>>
    /\ calls # <<>> => ParseOk(argv) /\ pc # "usage"

\* a rejected invocation that names a command but lacks a required argument
C3_Witness ==
    /\ pc = "usage"
    /\ IsSome(argv.name)
    /\ IsSome(argv.token)
    /\ \E a \in RequiredArgs(argv.name[1]) : argv.given[a] = None

\* C4: for the events command list_events_range(start, end, limit) is
\* invoked if and only if both --start and --end are supplied, whatever
\* --limit; otherwise list_events(limit) is invoked and the bound that was
\* supplied is not passed on.
C4_RangedIffBoth ==
    (IsSome(argv.name) /\ argv.name[1] = "events" /\ CommandCalls # <<>>) =>
        LET c == CommandCalls[1]
            both == IsSome(argv.given.start) /\ IsSome(argv.given.end)
        IN  /\ c.op = "list_events_range" <=> both
            /\ c.op = "list_events" <=> ~both
            /\ both => c.args = <<argv.given.start[1], argv.given.end[1], cmd.a.limit>>
            /\ ~both => c.args = <<cmd.a.limit>>

\* events --start 2024-01-01 --limit 2 (no --end): the unranged operation
C4_Witness ==
    /\ pc = "done"
    /\ cmd.name = "events"
    /\ IsSome(argv.given.start)
    /\ argv.given.end = None
    /\ IsSome(argv.given.limit)
    /\ CommandCalls[1].op = "list_events"

\* the commands whose client operation returns a list
ListCommands ==
    {"inbox", "unread", "search", "folders", "attachments", "poll", "drafts",
     "events", "contacts"}

\* C5: a list-returning command whose client operation returns zero results
\* writes one line, the fixed empty-state sentence of the command: a literal
\* with no interpolated value, and no header, legend or blank line.
C5_EmptyStateOnly ==
    (pc = "done" /\ cmd.name \in ListCommands /\ resp = Some(<<>>)) =>
        /\ Len(out) = 1
        /\ Len(out[1]) = 1
        /\ out[1][1] # ""

\* the commands that render one message, event or contact
DetailCommands == {"get", "event", "contact"}

\* the optional fields of the response of a detail command and the literal
\* that starts the line of each (the body line is the bare "{}")
DetailLabels(name) ==
    CASE name = "get" ->
            [subject |-> "Subject: ", from |-> "From: ",
             received_date_time |-> "Date: ", is_read |-> "Read: ", body |-> ""]
      [] name = "event" ->
            [subject |-> "Subject: ", start |-> "Start: ", end |-> "End: ",
             location |-> "Location: ", attendees |-> "Attendees:"]
      [] name = "contact" ->
            [given_name |-> "Name: ", surname |-> "Name: ",
             email_addresses |-> "Email: ", mobile_phone |-> "Mobile: ",
             company_name |-> "Company: ", job_title |-> "Title: "]

\* the fields of a detail render whose line is printed unconditionally
AlwaysPrinted(name) ==
    CASE name = "get" -> {"subject", "from", "received_date_time", "is_read"}
      [] name = "event" -> {"subject"}
      [] name = "contact" -> {"given_name", "surname"}

\* the lines of standard output that start with the literal l
LinesFor(l) ==
    {i \in 1..Len(out) : out[i][1] = l /\ (l = "" => Len(out[i]) = 2)}

\* some piece of some line is the text "None"
ShowsNone == \E i \in 1..Len(out) : \E k \in 1..Len(out[i]) : out[i][k] = "None"

\* C6 as stated: in a detail render an absent optional field has no line,
\* and a field present at the container level but empty at the leaf (a
\* location without display name, an e-mail entry without address) has a
\* line that shows a fallback token, neither blank nor "None".
C6_AbsentFieldNoLine ==
    (pc = "done" /\ cmd.name \in DetailCommands) =>
        LET r == resp[1]
            labels == DetailLabels(cmd.name)
        IN  /\ \A f \in DOMAIN labels : r[f] = None => LinesFor(labels[f]) = {}
            /\ (cmd.name = "event" /\ IsSome(r.location)
                  /\ r.location[1].display_name = None) =>
                   \E i \in LinesFor("Location: ") :
                       Len(out[i]) = 2 /\ out[i][2] \notin {"", "None"}
            /\ (cmd.name = "contact" /\ IsSome(r.email_addresses)) =>
                   /\ Cardinality(LinesFor("Email: ")) = Len(r.email_addresses[1])
                   /\ \A i \in LinesFor("Email: ") : out[i][2] \notin {"", "None"}

\* C6 (amended): in a detail render the lines printed unconditionally
\* (Subject, From, Date, Read of a message; Subject of an event; Name of a
\* contact) are always there and show "(no subject)", "unknown", the empty
\* string, "No" and the empty string when their field is absent; every
\* other optional field has no line when it is absent and has its line
\* when it is present; a location without display name and an e-mail entry
\* without address have no line; no line shows "None".
C6_DetailRender ==
    (pc = "done" /\ cmd.name \in DetailCommands) =>
        LET r == resp[1]
            n == cmd.name
            labels == DetailLabels(n)
        IN  /\ \A f \in AlwaysPrinted(n) : Cardinality(LinesFor(labels[f])) = 1
            /\ \A f \in DOMAIN labels \ AlwaysPrinted(n) :
                  r[f] = None => LinesFor(labels[f]) = {}
            /\ n = "get" =>
                  /\ r.subject = None => out[1] = <<"Subject: ", "(no subject)">>
                  /\ r.from = None => out[2] = <<"From: ", "unknown">>
                  /\ r.received_date_time = None => out[3] = <<"Date: ", "">>
                  /\ r.is_read = None => out[4] = <<"Read: ", "No">>
                  /\ IsSome(r.body) => LinesFor("") # {}
            /\ n = "event" =>
                  /\ r.subject = None => out[1] = <<"Subject: ", "(no subject)">>
                  /\ IsSome(r.start) <=> LinesFor("Start: ") # {}
                  /\ IsSome(r.end) <=> LinesFor("End: ") # {}
                  /\ LinesFor("Location: ") # {} <=>
                        (IsSome(r.location) /\ IsSome(r.location[1].display_name))
                  /\ IsSome(r.attendees) <=> LinesFor("Attendees:") # {}
            /\ n = "contact" =>
                  /\ r.given_name = None => out[1][2] = ""
                  /\ r.surname = None => out[1][4] = ""
                  /\ Cardinality(LinesFor("Email: ")) =
                        IF IsSome(r.email_addresses)
                        THEN Cardinality({i \in 1..Len(r.email_addresses[1]) :
                                            IsSome(r.email_addresses[1][i].address)})
                        ELSE 0
                  /\ IsSome(r.mobile_phone) <=> LinesFor("Mobile: ") # {}
                  /\ IsSome(r.company_name) <=> LinesFor("Company: ") # {}
                  /\ IsSome(r.job_title) <=> LinesFor("Title: ") # {}
            /\ ~ShowsNone

\* an event without subject and start whose location has no display name
C6_Witness ==
    /\ pc = "done"
    /\ cmd.name = "event"
    /\ resp[1].subject = None
    /\ resp[1].start = None
    /\ resp[1].location = Some([display_name |-> None])
    /\ out = << <<"Subject: ", "(no subject)">> >>

\* the commands rendered by print_messages, and the header lines before it
MessageListCommands == {"inbox", "unread", "search", "poll", "drafts"}
HeaderLines(name) == IF name \in {"poll", "drafts"} THEN 1 ELSE 0

\* the pairs <<field, text shown>> of the absent optional fields that the
\* render of the response shows (pieces of the lines of an item are counted
\* from the format string of the arm)
AbsentShown ==
    LET r == resp[1]
        n == cmd.name
        shown(absent, f, text) == IF absent THEN {<<f, text>>} ELSE {}
    IN  CASE n \in MessageListCommands ->
               UNION { LET line == out[HeaderLines(n) + 2 * k - 1]
                       IN  shown(r[k].is_read = None, "is_read", line[4])
                           \cup shown(r[k].from = None, "from", line[6])
                           \cup shown(r[k].subject = None, "subject", line[8])
                       : k \in 1..Len(r) }
          [] n = "folders" ->
               UNION { LET line == out[2 + k]
                       IN  shown(r[k].total_item_count = None, "total_item_count", line[4])
                           \cup shown(r[k].unread_item_count = None,
                                      "unread_item_count", line[6])
                       : k \in 1..Len(r) }
          [] n = "me" ->
               shown(r.display_name = None, "display_name", out[1][2])
               \cup shown(r.mail = None, "mail", out[2][2])
          [] n = "get" ->
               shown(r.subject = None, "subject", out[1][2])
               \cup shown(r.from = None, "from", out[2][2])
               \cup shown(r.received_date_time = None, "received_date_time", out[3][2])
               \cup shown(r.is_read = None, "is_read", out[4][2])
          [] n = "attachments" ->
               UNION { shown(r[k].size = None, "size", out[1 + k][6]) : k \in 1..Len(r) }
          [] n = "events" ->
               UNION { LET line == out[2 * k]
                       IN  shown(r[k].start = None, "start", line[2])
                           \cup shown(r[k].subject = None, "subject", line[4])
                       : k \in 1..Len(r) }
          [] n = "event" -> shown(r.subject = None, "subject", out[1][2])
          [] n = "contacts" ->
               UNION { LET line == out[2 * k]
                       IN  shown(r[k].display_name = None, "display_name", line[2])
                           \cup shown(r[k].email_addresses = None,
                                      "email_addresses", line[4])
                       : k \in 1..Len(r) }
          [] n = "contact" ->
               shown(r.given_name = None, "given_name", out[1][2])
               \cup shown(r.surname = None, "surname", out[1][4])
          [] OTHER -> {}

FallbackTokens == {"(no subject)", "(no name)", "unknown", "", "0"}

\* every response the client returns is rendered to the end (only the file
\* write of download can still fail)
RenderCompletes ==
    resp # None => \/ pc = "done"
                   \/ cmd.name = "download" /\ pc = "failed" /\ err[1] \in IoErrors

\* C7 as stated: rendering never aborts and every absent optional field
\* that is rendered shows "(no subject)", "(no name)", "unknown", the empty
\* string or "0" (isRead, which has a display default, left aside).
C7_FiveFallbackTokens ==
    /\ RenderCompletes
    /\ pc = "done" =>
          \A p \in AbsentShown : p[1] # "is_read" => p[2] \in FallbackTokens

\* C7 (amended): rendering never aborts and every absent optional field
\* that is rendered shows "(no subject)", "(no name)", "unknown", the empty
\* string or "0", except that an absent start of a listed event shows "?"
\* and an absent isRead shows the message as unread ("*" in a list, "No" in
\* the detail render).
C7_FallbackTokens ==
    /\ RenderCompletes
    /\ pc = "done" =>
          \A p \in AbsentShown :
              CASE p[1] = "is_read" -> p[2] \in {"*", "No"}
                [] p[1] = "start" -> p[2] = "?"
                [] OTHER -> p[2] \in FallbackTokens

\* a listed event without start and subject: "?" and "(no subject)"
C7_Witness ==
    /\ pc = "done"
    /\ cmd.name = "events"
    /\ Len(resp[1]) = 1
    /\ resp[1][1].start = None
    /\ resp[1][1].subject = None
    /\ AbsentShown = {<<"start", "?">>, <<"subject", "(no subject)">>}

\* s cut at its commas gives the segments whose trimmed texts are l
IsTrimOf(t, g) ==
    \E a \in 0..Len(g) : \E b \in 0..(Len(g) - a) :
        /\ t = SubSeq(g, a + 1, Len(g) - b)
        /\ \A i \in 1..a : g[i] = " "
        /\ \A i \in (Len(g) - b + 1)..Len(g) : g[i] = " "
        /\ t # <<>> => t[1] # " " /\ t[Len(t)] # " "

IsSegmentsOf(l, s) ==
    LET commas == {i \in 1..Len(s) : s[i] = ","}
        n == Cardinality(commas)
        cut(k) == IF k = 0 THEN 0
                  ELSE IF k = n + 1 THEN Len(s) + 1
                  ELSE CHOOSE i \in commas : Cardinality({j \in commas : j < i}) = k - 1
    IN  /\ Len(l) = n + 1
        /\ \A k \in 1..(n + 1) : IsTrimOf(l[k], SubSeq(s, cut(k - 1) + 1, cut(k) - 1))

\* C8: the list forward, create-draft and create-event hand to the client
\* or builder is the sequence of the comma-delimited segments of the text
\* as given on the command line, each without its surrounding whitespace,
\* in order: one more than the commas, duplicates and empty segments kept.
C8_SplitTrimmedSegments ==
    (IsSome(argv.name) /\ CommandCalls # <<>>) =>
        LET n == argv.name[1]
            c == CommandCalls[1]
        IN  /\ n = "forward" => IsSegmentsOf(c.args[2], argv.given.to[1])
            /\ n = "create-draft" =>
                  IF IsSome(argv.given.to)
                  THEN IsSome(c.args[1].to)
                       /\ IsSegmentsOf(c.args[1].to[1], argv.given.to[1])
                  ELSE c.args[1].to = None
            /\ n = "create-event" =>
                  IF IsSome(argv.given.attendees)
                  THEN IsSome(c.args[1].attendees)
                       /\ IsSegmentsOf(c.args[1].attendees[1], argv.given.attendees[1])
                  ELSE c.args[1].attendees = None

\* forward --to "a ," : the trailing comma gives an empty second recipient
C8_Witness ==
    /\ pc = "done"
    /\ cmd.name = "forward"
    /\ argv.given.to = Some(<<"a", " ", ",">>)
    /\ CommandCalls[1].args[2] = << <<"a">>, <<>> >>

\* C9: a non-empty list of N messages is rendered as N entries in input
\* order, the k-th numbered k, marked "*" unless isRead is true and " "
\* when it is, showing its sender and subject and followed by its indented
\* ID line; the legend "* = unread" appears once, as the last line.
C9_MessageList ==
    (pc = "done" /\ cmd.name \in MessageListCommands /\ resp # Some(<<>>)) =>
        LET r == resp[1]
            N == Len(r)
            h == HeaderLines(cmd.name)
        IN  /\ Len(out) = h + 2 * N + 2
            /\ \A k \in 1..N :
                  LET line == out[h + 2 * k - 1]
                  IN  /\ Len(line) = 8
                      /\ line[2] = (IF k < 10 THEN " " ELSE "") \o ToString(k)
                      /\ line[3] = "."
                      /\ line[4] = IF r[k].is_read = Some(TRUE) THEN " " ELSE "*"
                      /\ IsSome(r[k].from) => line[6] = r[k].from[1].email_address.address
                      /\ IsSome(r[k].subject) => line[8] = r[k].subject[1]
                      /\ out[h + 2 * k] = <<"      ID: ", r[k].id>>
            /\ out[Len(out)] = <<"* = unread">>
            /\ Cardinality({i \in 1..Len(out) : out[i] = <<"* = unread">>}) = 1

\* scenario A: inbox returns an unread message, then a read one
C9_Witness ==
    /\ pc = "done"
    /\ cmd.name = "inbox"
    /\ Len(resp[1]) = 2
    /\ resp[1][1].is_read = Some(FALSE)
    /\ resp[1][2].is_read = Some(TRUE)
    /\ out[1][4] = "*"
    /\ out[3][4] = " "
    /\ out[6] = <<"* = unread">>

\* the arguments send, reply and forward need besides the token
SendReplyForwardArgs(name) ==
    CASE name = "send" -> {"to", "subject", "body"}
      [] name = "reply" -> {"id", "message"}
      [] name = "forward" -> {"id", "to"}

\* C10 as stated: send, reply and forward require only their positional
\* argument (to; id; id): an invocation that supplies it is accepted by
\* argument parsing, whatever else it omits.
C10_OnlyPositionalRequired ==
    (/\ pc # "start"
     /\ IsSome(argv.name) /\ argv.name[1] \in {"send", "reply", "forward"}
     /\ IsSome(argv.token)
     /\ \A a \in PositionalArgs(argv.name[1]) : IsSome(argv.given[a]))
    => pc # "usage"

\* C10 (amended): send requires to, --subject and --body, reply requires id
\* and --message, forward requires id and --to: an invocation that supplies
\* all of them is accepted by argument parsing and reaches the client
\* operation once the client is constructed; one that omits any of them is
\* rejected as an argument error before any client call.
C10_NamedArgsRequired ==
    (/\ pc # "start"
     /\ IsSome(argv.name) /\ argv.name[1] \in {"send", "reply", "forward"}
     /\ IsSome(argv.token))
    => LET complete == \A a \in SendReplyForwardArgs(argv.name[1]) :
                           IsSome(argv.given[a])
       IN  /\ pc = "usage" <=> ~complete
           /\ pc = "usage" => calls = <<>>
           /\ (pc \in {"done", "failed"} /\ calls[1].result = "ok") =>
                 Len(CommandCalls) = 1

\* send to@example.com without --subject and --body: rejected
C10_Witness ==
    /\ pc = "usage"
    /\ argv.name = Some("send")
    /\ IsSome(argv.token)
    /\ IsSome(argv.given.to)
    /\ argv.given.subject = None
    /\ argv.given.body = None
    /\ calls = <<>>

\* the commands that change something on the service
MutatingCommands ==
    {"read", "send", "reply", "forward", "delete", "send-draft", "create-draft",
     "create-event", "delete-event", "accept-event", "decline-event",
     "create-contact", "delete-contact"}

\* the commands whose confirmation names what the service created
CreatingCommands == {"create-draft", "create-event", "create-contact"}

\* the texts given on the command line, as Strings
SuppliedTexts ==
    LET n == argv.name[1]
    IN  { IF IsCommaArg(n, a) THEN Str(argv.given[a][1]) ELSE argv.given[a][1] :
            a \in {b \in ValueArgs(n) \ {"limit"} : IsSome(argv.given[b])} }

\* the literal that starts the confirmation line of a mutating command
ConfirmationLiterals(name) ==
    CASE name = "read" -> {"Marked as read: "}
      [] name = "send" -> {"Email sent to: "}
      [] name = "reply" -> {"Replied to: ", "Replied all to: "}
      [] name = "forward" -> {"Forwarded to: "}
      [] name = "delete" -> {"Deleted: "}
      [] name = "send-draft" -> {"Draft sent: "}
      [] name = "create-draft" -> {"Draft created: "}
      [] name = "create-event" -> {"Event created: "}
      [] name = "delete-event" -> {"Event deleted: "}
      [] name = "accept-event" -> {"Event accepted: "}
      [] name = "decline-event" -> {"Event declined: "}
      [] name = "create-contact" -> {"Contact created: "}
      [] name = "delete-contact" -> {"Contact deleted: "}

\* C11 as stated: a mutating command whose client operation succeeds prints
\* exactly one confirmation line, and the value the line names is a text
\* the user supplied on the command line, unchanged.
C11_NamesSuppliedText ==
    (pc = "done" /\ cmd.name \in MutatingCommands) =>
        /\ Len(out) = 1
        /\ Len(out[1]) = 2
        /\ out[1][1] \in ConfirmationLiterals(cmd.name)
        /\ out[1][2] \in SuppliedTexts

\* C11 (amended): a mutating command whose client operation succeeds prints
\* exactly one confirmation line.  For read, reply, delete, send-draft,
\* delete-event, accept-event, decline-event and delete-contact the line
\* names the id as supplied, for send the recipient as supplied, for
\* forward the --to text as supplied (not the split and trimmed list); for
\* create-draft, create-event and create-contact it names the id of the
\* created item that the client returned.
C11_Confirmation ==
    (pc = "done" /\ cmd.name \in MutatingCommands) =>
        LET n == cmd.name
        IN  /\ Len(out) = 1
            /\ Len(out[1]) = 2
            /\ out[1][1] \in ConfirmationLiterals(n)
            /\ n = "reply" =>
                  out[1][1] = IF argv.flags.all THEN "Replied all to: "
                                                ELSE "Replied to: "
            /\ out[1][2] =
                  CASE n \in CreatingCommands -> resp[1].id
                    [] n = "send" -> argv.given.to[1]
                    [] n = "forward" -> Str(argv.given.to[1])
                    [] OTHER -> argv.given.id[1]

\* forward --to " a," : the confirmation echoes the text, blank and comma kept
C11_Witness ==
    /\ pc = "done"
    /\ cmd.name = "forward"
    /\ argv.given.to = Some(<<" ", "a", ",">>)
    /\ CommandCalls[1].args[2] = << <<"a">>, <<>> >>
    /\ out = << <<"Forwarded to: ", " a,">> >>

\* s is the beginning of t
IsPrefix(s, t) == Len(s) <= Len(t) /\ s = SubSeq(t, 1, Len(s))

\* what a step of the program may do to the file at the output path
FileStep ==
    LET downloading == cmd.name = "download" /\ pc = "dispatch"
        last == calls'[Len(calls')]
    IN  \* the file changes only in the download arm, after download_attachment
        \* has returned its bytes, and only to (a beginning of) these bytes
        /\ file' # file =>
              /\ downloading
              /\ last.op = "download_attachment" /\ last.result = "ok"
              /\ IsSome(file') /\ IsPrefix(file'[1], resp'[1])
        \* the download fails: the file is as it was
        /\ (downloading /\ last.result # "ok") =>
              file' = file /\ pc' = "failed" /\ err' = Some(last.result)
        \* the run succeeds: the file holds exactly the returned bytes and
        \* the one line of output is the confirmation with their number
        /\ (downloading /\ pc' = "done") =>
              /\ last.result = "ok"
              /\ file' = resp'
              /\ out' = << <<"Downloaded ", ToString(Len(resp'[1])),
                             " bytes to: ", argv.given.output[1]>> >>
        \* the write fails: the failure comes after the successful download
        \* and nothing is printed
        /\ (downloading /\ pc' = "failed" /\ last.result = "ok") =>
              /\ err'[1] \in IoErrors
              /\ out' = <<>>

\* C12: the file at the output path is written only by the download
\* command, only after download_attachment has returned successfully and
\* with the returned bytes: a failed download leaves the file unchanged, a
\* failed write is surfaced after the network step without a "Downloaded"
\* line, and no other command writes the file.
C12_FileWrittenByDownloadOnly == [][FileStep]_vars

\* the write failed half way: part of the bytes is in the file, the download
\* had succeeded and there is no confirmation
C12_Witness ==
    /\ pc = "failed"
    /\ cmd.name = "download"
    /\ Len(calls) = 2
    /\ calls[2].op = "download_attachment"
    /\ calls[2].result = "ok"
    /\ resp = Some(<<7, 9>>)
    /\ file = Some(<<7>>)
    /\ err = Some("permission denied")
    /\ out = <<>>

====
